---- MODULE Spec2Model ----
(***************************************************************************)
(* Trust-policy resolution of ncp_policy_client_app: PolicyManager of      *)
(* nandaPolicy.py (registry discovery, qualifier matching, the 72 hour     *)
(* trust cache and the live-then-cache resolution).                        *)
(*                                                                         *)
(* Python values are modelled with their Python meaning: a str is a        *)
(* sequence of characters (so that `in` on a str is substring search), a   *)
(* dict carries the set of keys it holds (so that d[k] on a missing key is *)
(* a KeyError), and an exception is an outcome of the call.                *)
(***************************************************************************)
EXTENDS Integers, Sequences, FiniteSets, TLC

(***************************************************************************)
(* Bounds of the model.                                                    *)
(***************************************************************************)
\* longest `data` list a registry answer carries
MaxItems == 2
\* how many times the clock may advance by one tick inside a window
MaxSmallTicks == 1
\* how many times the clock may advance by (almost) a whole freshness window
MaxWindows == 1
\* longest registry_discovery_end_point, in characters
MaxBaseLen == 3
\* how many queries the chat loop takes
MaxQueries == 2

(***************************************************************************)
(* Time.  datetime.now() has sub-second resolution; the cache stores       *)
(* "%d.%m.%Y %H:%M:%S", whole seconds.  The clock counts ticks of half a   *)
(* second.                                                                 *)
(***************************************************************************)
TicksPerSecond == 2
FreshHours == 72

\* timedelta(hours=72), in ticks
timedelta_hours_72 == FreshHours * 3600 * TicksPerSecond

TIME_FORMAT == "%d.%m.%Y %H:%M:%S"

\* now.strftime("%d.%m.%Y %H:%M:%S"): the sub-second part is dropped
strftime(t) == [fmt |-> TIME_FORMAT, sec |-> t \div TicksPerSecond]

\* datetime.strptime(s, "%d.%m.%Y %H:%M:%S"): raises ValueError on any other text
strptime_ok(s) == s.fmt = TIME_FORMAT
strptime(s) == s.sec * TicksPerSecond

(***************************************************************************)
(* Python str and list values.                                             *)
(***************************************************************************)
\* needle in haystack, for two str
str_contains(haystack, needle) ==
    \E i \in 0..(Len(haystack) - Len(needle)) :
        \A j \in 1..Len(needle) : haystack[i + j] = needle[j]

\* x in l, for a list l
list_contains(l, x) == \E i \in DOMAIN l : l[i] = x

\* value of a qualifier: a bool, a number, a str or a list of str
PyBool(b) == [py |-> "bool", b |-> b, n |-> 0, s |-> <<>>, l |-> <<>>]
PyNum(n) == [py |-> "num", b |-> FALSE, n |-> n, s |-> <<>>, l |-> <<>>]
PyStr(s) == [py |-> "str", b |-> FALSE, n |-> 0, s |-> s, l |-> <<>>]
PyList(l) == [py |-> "list", b |-> FALSE, n |-> 0, s |-> <<>>, l |-> l]

\* x in value, as Python evaluates it for a str x
py_in(x, value) ==
    IF value.py = "str" THEN str_contains(value.s, x) ELSE list_contains(value.l, x)

(***************************************************************************)
(* Registry items (dicts decoded from the registry's JSON).                *)
(***************************************************************************)
ItemKeys == {"id", "name", "url", "provider", "verified", "relevance_score", "uptime"}

RegistryItem(id, url, provider, verified, relevance_score, uptime) ==
    [id |-> id, name |-> id, url |-> url, provider |-> provider, verified |-> verified,
     relevance_score |-> relevance_score, uptime |-> uptime, keys |-> ItemKeys]

\* the dict {}
EmptyDict ==
    [id |-> "", name |-> "", url |-> "", provider |-> <<>>, verified |-> FALSE,
     relevance_score |-> 0, uptime |-> 0, keys |-> {}]

\* provider names
acme == <<"a", "c">>
ac == <<"a">>
other == <<"o">>

URL_A == "https://a.example/mcp"
URL_A2 == "https://a2.example/mcp"
URL_B == "https://b.example/mcp"

\* an item every policy below accepts
ItemA == RegistryItem("a", URL_A, acme, TRUE, 2, 2)
\* the same id at another url, with a lower relevance_score
ItemAScore1 == RegistryItem("a", URL_A2, acme, TRUE, 1, 2)
\* a provider whose name is a substring of acme's
ItemBSubstr == RegistryItem("b", URL_B, ac, TRUE, 2, 2)

ItemPool == {ItemA, ItemAScore1, ItemBSubstr}

(***************************************************************************)
(* The policy document (policy.json) and its qualifiers.                   *)
(***************************************************************************)
Qualifier(name, value) == [name |-> name, value |-> value]

\* a registry_discovery_end_point without query text; a str is its characters
DiscoveryEndPoint == <<"u">>

PolicyDocument(cache_mcp_servers_policy, qualifiers_metrics) ==
    [loaded |-> TRUE, registry_discovery_end_point |-> DiscoveryEndPoint,
     cache_mcp_servers_policy |-> cache_mcp_servers_policy,
     qualifiers_metrics |-> qualifiers_metrics]

\* before PolicyManager() has run there is no policy
NoPolicy ==
    [loaded |-> FALSE, registry_discovery_end_point |-> <<>>,
     cache_mcp_servers_policy |-> FALSE, qualifiers_metrics |-> <<>>]

Metrics(provider, relevance_score, uptime) ==
    << Qualifier("verified", PyBool(TRUE)), Qualifier("provider", provider),
       Qualifier("relevance_score", PyNum(relevance_score)), Qualifier("uptime", PyNum(uptime)) >>

PolicyLoose == PolicyDocument(TRUE, Metrics(PyList(<<acme>>), 1, 1))
PolicyTight == PolicyDocument(TRUE, Metrics(PyList(<<acme, other>>), 2, 2))
PolicyStrNoCache == PolicyDocument(FALSE, Metrics(PyStr(acme), 1, 1))

Policies == {PolicyLoose, PolicyTight, PolicyStrNoCache}

\* vp = {m['name']: m for m in self.policy_metrics}: the last metric of a name wins
vp_of(policy_metrics) ==
    [n \in {policy_metrics[i].name : i \in DOMAIN policy_metrics} |->
        policy_metrics[CHOOSE i \in DOMAIN policy_metrics :
            /\ policy_metrics[i].name = n
            /\ \A j \in DOMAIN policy_metrics : policy_metrics[j].name = n => j <= i].value]

\* mutant: the uptime operand reads the item's relevance_score
operand_uptime_reads_score(k, item, value) ==
    CASE k = "verified" -> value.py = "bool" /\ item.verified = value.b
      [] k = "provider" -> py_in(item.provider, value)
      [] k = "relevance_score" -> item.relevance_score >= value.n
      [] k = "uptime" -> item.relevance_score >= value.n

\* one operand of the `and` chain, for a key both dicts hold
operand(k, item, value) ==
    CASE k = "verified" -> value.py = "bool" /\ item.verified = value.b
      [] k = "provider" -> py_in(item.provider, value)
      [] k = "relevance_score" -> item.relevance_score >= value.n
      [] k = "uptime" -> item.uptime >= value.n

QualifierOrder == <<"verified", "provider", "relevance_score", "uptime">>

\* the `and` chain over the four qualifiers, left to right, stopping at the first
\* false operand; item[k] or vp[k] on a missing key raises KeyError
RECURSIVE and_chain(_, _, _)
and_chain(ks, item, vp) ==
    IF ks = <<>> THEN "True"
    ELSE LET k == Head(ks) IN
         IF k \notin item.keys \/ k \notin DOMAIN vp THEN "KeyError"
         ELSE IF ~operand(k, item, vp[k]) THEN "False"
         ELSE and_chain(Tail(ks), item, vp)

\* mutant: an item that was accepted once is accepted for good
_item_passes_policy_once_for_all(item, policy_metrics) == "True"

\* PolicyManager._item_passes_policy: "True", "False" or "KeyError"
_item_passes_policy(item, policy_metrics) ==
    and_chain(QualifierOrder, item, vp_of(policy_metrics))

(***************************************************************************)
(* Registry answers and their decoding.                                    *)
(***************************************************************************)
\* a decoded JSON document: an object, which may hold a list (or null) under
\* "data", or a value that is no object
JsonObject(data, items) == [shape |-> "object", data |-> data, items |-> items]
JsonOther(shape) == [shape |-> shape, data |-> "absent", items |-> <<>>]

\* the text of an HTTP answer: JSON text (with the document it decodes to) or not
Body(is_json, doc) == [is_json |-> is_json, doc |-> doc]
NotJson == Body(FALSE, JsonObject("absent", <<>>))

\* what one GET meets: a transport failure (exception, non-2xx) or a body
Answer(ok, body) == [ok |-> ok, body |-> body]

\* PolicyManager.get_url_response: the text, or the text "Error fetching the URL: ..."
get_url_response(answer) == IF answer.ok THEN answer.body ELSE NotJson

\* mutant: on a JSONDecodeError the response text itself is kept as the data
discover_registry_data_keeps_text(answer) ==
    LET response == get_url_response(answer) IN
    IF response.is_json THEN response.doc ELSE JsonOther("string")

\* json.loads in _discover_registry, JSONDecodeError turned into {}
discover_registry_data(answer) ==
    LET response == get_url_response(answer) IN
    IF response.is_json THEN response.doc ELSE JsonObject("absent", <<>>)

Return(item) == [out |-> "return", none |-> FALSE, item |-> item, exc |-> ""]
ReturnNone == [out |-> "return", none |-> TRUE, item |-> EmptyDict, exc |-> ""]
Raise(exc) == [out |-> "raise", none |-> FALSE, item |-> EmptyDict, exc |-> exc]

\* mutant: the loop keeps the last match instead of returning the first
RECURSIVE match_last_from(_, _, _)
match_last_from(i, items, vp) ==
    IF i > Len(items) THEN ReturnNone
    ELSE LET c == and_chain(QualifierOrder, items[i], vp)
             rest == match_last_from(i + 1, items, vp)
         IN  IF c = "KeyError" THEN Raise("KeyError")
             ELSE IF c = "True" /\ rest.none THEN Return(items[i])
             ELSE rest

\* the for loop of match_policy_and_get_url from index i on
RECURSIVE match_from(_, _, _)
match_from(i, items, vp) ==
    IF i > Len(items) THEN ReturnNone
    ELSE LET c == and_chain(QualifierOrder, items[i], vp) IN
         IF c = "KeyError" THEN Raise("KeyError")
         ELSE IF c = "True" THEN Return(items[i])
         ELSE match_from(i + 1, items, vp)

\* PolicyManager.match_policy_and_get_url
match_policy_and_get_url(registry_response_data, policy_metrics) ==
    IF registry_response_data.shape # "object" THEN Raise("AttributeError")
    ELSE IF registry_response_data.data = "null" THEN Raise("TypeError")
    ELSE IF registry_response_data.data = "absent" THEN ReturnNone
    ELSE match_from(1, registry_response_data.items, vp_of(policy_metrics))

(***************************************************************************)
(* The cache file cached_mcp_servers.json.                                 *)
(***************************************************************************)
EntryKeys == {"mcp_endpoint", "met_protocol_criteria", "last_cached", "criteria", "data_item"}

DefaultCriteria == "limit=3&q=recipe&tags=nutrition&type=tool&verified=true"

\* the entry dict update_cache builds
CacheEntry(item, criteria, t) ==
    [mcp_endpoint |-> item.url, met_protocol_criteria |-> TRUE, last_cached |-> strftime(t),
     criteria |-> criteria, data_item |-> item, keys |-> EntryKeys]

\* the file: missing, not JSON, or JSON text.  JSON text decodes to a value that is
\* no object ("not_object"), to an object without "cached_mcp" ("no_key"), with
\* "cached_mcp": null ("null_list"), or with a list under "cached_mcp" ("ok")
CacheFile(kind, cached_mcp) == [kind |-> kind, cached_mcp |-> cached_mcp]

MissingFile == CacheFile("missing", <<>>)

\* mutant: the cache is never read back
load_cache_always_empty(file) == CacheFile("ok", <<>>)

\* PolicyManager.load_cache: a missing file and a JSONDecodeError give {"cached_mcp": []}
load_cache(file) ==
    IF file.kind \in {"missing", "invalid_json"} THEN CacheFile("ok", <<>>) ELSE file

\* PolicyManager.save_cache / _save_json: the file is rewritten with the whole dict
save_cache(cache) == cache

\* mutant: the id is looked up in the entry itself, which has none
entry_has_id_of_entry(e, id) == "id" \in e.keys /\ e.data_item.id = id

\* e.get("data_item", {}).get("id") == item["id"], for an item holding "id"
entry_has_id(e, id) ==
    /\ "data_item" \in e.keys
    /\ "id" \in e.data_item.keys
    /\ e.data_item.id = id

\* mutant: no entry is ever found
existing_index_none(cached_mcp, id) == 0

\* next((e for e in cached_mcp if ...), None): index of the first entry of the id, or 0
existing_index(cached_mcp, id) ==
    IF \E i \in DOMAIN cached_mcp : entry_has_id(cached_mcp[i], id)
    THEN CHOOSE i \in DOMAIN cached_mcp :
            /\ entry_has_id(cached_mcp[i], id)
            /\ \A j \in DOMAIN cached_mcp : entry_has_id(cached_mcp[j], id) => i <= j
    ELSE 0

\* mutant: the index is that of the end of the list
list_index_end(cached_mcp, e) == Len(cached_mcp)

\* cache["cached_mcp"].index(existing): the first entry equal to it
list_index(cached_mcp, e) ==
    CHOOSE i \in DOMAIN cached_mcp :
        cached_mcp[i] = e /\ \A j \in DOMAIN cached_mcp : cached_mcp[j] = e => i <= j

\* mutant: the cutoff lies 72 hours ahead of now instead of behind it
is_fresh_cutoff_ahead(last_cached, t) == strptime(last_cached) > t + timedelta_hours_72

\* cutoff = now - timedelta(hours=72); last > cutoff
is_fresh(last_cached, t) == strptime(last_cached) > t - timedelta_hours_72

\* outcome of update_cache: the file afterwards, whether it was rewritten, and the
\* exception raised, if any
Updated(file, wrote, exc) == [file |-> file, wrote |-> wrote, exc |-> exc]

\* PolicyManager.update_cache(item, criteria) at time t
update_cache(item, criteria, file, t) ==
    IF "url" \notin item.keys THEN Updated(file, FALSE, "KeyError")
    ELSE
    LET cache == load_cache(file)
    IN  IF cache.kind = "not_object" THEN Updated(file, FALSE, "AttributeError")
        ELSE IF cache.kind = "null_list" THEN Updated(file, FALSE, "TypeError")
        ELSE IF cache.cached_mcp # <<>> /\ "id" \notin item.keys
        THEN Updated(file, FALSE, "KeyError")
        ELSE
        LET idx == existing_index(cache.cached_mcp, item.id)
            entry == CacheEntry(item, criteria, t)
        IN  IF idx # 0 /\ "last_cached" \notin cache.cached_mcp[idx].keys
            THEN Updated(file, FALSE, "KeyError")
            ELSE IF idx # 0 /\ ~strptime_ok(cache.cached_mcp[idx].last_cached)
            THEN Updated(file, FALSE, "ValueError")
            ELSE IF idx # 0 /\ is_fresh(cache.cached_mcp[idx].last_cached, t)
            THEN Updated(file, FALSE, "")
            ELSE IF idx # 0
            THEN Updated(
                    save_cache(CacheFile("ok",
                        [cache.cached_mcp EXCEPT
                            ![list_index(cache.cached_mcp, cache.cached_mcp[idx])] = entry])),
                    TRUE, "")
            ELSE Updated(save_cache(CacheFile("ok", Append(cache.cached_mcp, entry))), TRUE, "")

\* outcome of a lookup in the cache: a URL, None or an exception
Found(url) == [out |-> "return", none |-> FALSE, url |-> url, exc |-> ""]
FoundNone == [out |-> "return", none |-> TRUE, url |-> "", exc |-> ""]
FoundRaise(exc) == [out |-> "raise", none |-> FALSE, url |-> "", exc |-> exc]

\* the for loop of the fallback phase of get_verifiable_mcp_endpoint from index i on
RECURSIVE fallback_from(_, _, _)
fallback_from(i, cached_mcp, policy_metrics) ==
    IF i > Len(cached_mcp) THEN FoundNone
    ELSE
    LET entry == cached_mcp[i]
        item == entry.data_item
    IN  IF "data_item" \notin entry.keys \/ item.keys = {}
        THEN fallback_from(i + 1, cached_mcp, policy_metrics)
        ELSE
        LET c == _item_passes_policy(item, policy_metrics) IN
        IF c = "KeyError" THEN FoundRaise("KeyError")
        ELSE IF c = "False" THEN fallback_from(i + 1, cached_mcp, policy_metrics)
        ELSE IF "name" \notin item.keys \/ "mcp_endpoint" \notin entry.keys
        THEN FoundRaise("KeyError")
        ELSE Found(entry.mcp_endpoint)

\* the for loop of load_cached_endpoint from index i on
RECURSIVE flagged_from(_, _)
flagged_from(i, cached_mcp) ==
    IF i > Len(cached_mcp) THEN FoundNone
    ELSE IF "met_protocol_criteria" \in cached_mcp[i].keys /\ cached_mcp[i].met_protocol_criteria
    THEN IF "mcp_endpoint" \in cached_mcp[i].keys
         THEN Found(cached_mcp[i].mcp_endpoint)
         ELSE FoundRaise("KeyError")
    ELSE flagged_from(i + 1, cached_mcp)

\* PolicyManager.load_cached_endpoint: the first entry whose stored flag is set
load_cached_endpoint(file) ==
    LET cache == load_cache(file) IN
    IF cache.kind = "not_object" THEN FoundRaise("AttributeError")
    ELSE IF cache.kind = "null_list" THEN FoundRaise("TypeError")
    ELSE flagged_from(1, cache.cached_mcp)

\* mutant: the fallback trusts the stored flag instead of re-checking the qualifiers
cache_fallback_by_flag(file, policy_metrics) == load_cached_endpoint(file)

\* phase 2 of get_verifiable_mcp_endpoint: load the cache and scan it
cache_fallback(file, policy_metrics) ==
    LET cache == load_cache(file) IN
    IF cache.kind = "not_object" THEN FoundRaise("AttributeError")
    ELSE IF cache.kind = "null_list" THEN FoundRaise("TypeError")
    ELSE fallback_from(1, cache.cached_mcp, policy_metrics)

(***************************************************************************)
(* PolicyManager.get_verifiable_mcp_endpoint.                              *)
(***************************************************************************)
\* outcome of a call: what it returned or raised, the phases it went through, the
\* item it gave to update_cache ({} if it did not call it), the cache file
\* afterwards and whether the call rewrote it
Outcome(out, none, value, exc, phases, updated, file, wrote) ==
    [out |-> out, none |-> none, value |-> value, exc |-> exc, phases |-> phases,
     updated |-> updated, file |-> file, wrote |-> wrote]

\* mutant: the cache is updated whatever the policy says
live_phase_always_caches(live_item, policy, file, t) ==
    IF ~({"name", "url"} \subseteq live_item.keys)
    THEN Outcome("raise", FALSE, "", "KeyError", <<"live">>, EmptyDict, file, FALSE)
    ELSE LET u == update_cache(live_item, DefaultCriteria, file, t) IN
         IF u.exc # ""
         THEN Outcome("raise", FALSE, "", u.exc, <<"live">>, live_item, u.file, u.wrote)
         ELSE Outcome("return", FALSE, live_item.url, "", <<"live">>, live_item, u.file, u.wrote)

\* phase 1 after a match: print the item, update the cache if the policy says so,
\* return the item's url
live_phase(live_item, policy, file, t) ==
    IF ~({"name", "url"} \subseteq live_item.keys)
    THEN Outcome("raise", FALSE, "", "KeyError", <<"live">>, EmptyDict, file, FALSE)
    ELSE IF policy.cache_mcp_servers_policy
    THEN LET u == update_cache(live_item, DefaultCriteria, file, t) IN
         IF u.exc # ""
         THEN Outcome("raise", FALSE, "", u.exc, <<"live">>, live_item, u.file, u.wrote)
         ELSE Outcome("return", FALSE, live_item.url, "", <<"live">>, live_item, u.file, u.wrote)
    ELSE Outcome("return", FALSE, live_item.url, "", <<"live">>, EmptyDict, file, FALSE)

\* mutant: the cache is not consulted
fallback_phase_skipped(policy, file) ==
    Outcome("return", TRUE, "", "", <<"live", "fallback", "exhausted">>, EmptyDict, file, FALSE)

\* phases 2 and 3: scan the cache, return the first passing entry's endpoint or None
fallback_phase(policy, file) ==
    LET c == cache_fallback(file, policy.qualifiers_metrics) IN
    IF c.out = "raise"
    THEN Outcome("raise", FALSE, "", c.exc, <<"live", "fallback">>, EmptyDict, file, FALSE)
    ELSE IF ~c.none
    THEN Outcome("return", FALSE, c.url, "", <<"live", "fallback">>, EmptyDict, file, FALSE)
    ELSE Outcome("return", TRUE, "", "", <<"live", "fallback", "exhausted">>, EmptyDict,
                 file, FALSE)

\* mutant: the cache is tried before the live match
get_verifiable_cache_first(policy, data, file, t) ==
    LET cached == fallback_phase(policy, file)
        live == match_policy_and_get_url(data, policy.qualifiers_metrics)
    IN  IF ~cached.none \/ live.out = "raise" \/ live.none THEN cached
        ELSE live_phase(live.item, policy, file, t)

\* PolicyManager.get_verifiable_mcp_endpoint at time t
get_verifiable_mcp_endpoint(policy, data, file, t) ==
    LET live == match_policy_and_get_url(data, policy.qualifiers_metrics) IN
    IF live.out = "raise"
    THEN Outcome("raise", FALSE, "", live.exc, <<"live">>, EmptyDict, file, FALSE)
    ELSE IF ~live.none
    THEN live_phase(live.item, policy, file, t)
    ELSE fallback_phase(policy, file)

(***************************************************************************)
(* The discovery URL. A str is the sequence of its characters; the keys    *)
(* and values of the criteria, which hold no "?", are kept as one piece    *)
(* each.                                                                   *)
(***************************************************************************)
\* the criteria dict of _discover_registry, in insertion order
criteria_items ==
    << <<"limit", "3">>, <<"q", "recipe">>, <<"tags", "nutrition">>,
       <<"type", "tool">>, <<"verified", "true">> >>

\* str.rstrip(chars) for one character: every trailing occurrence goes
RECURSIVE rstrip(_, _)
rstrip(s, ch) ==
    IF s # <<>> /\ s[Len(s)] = ch THEN rstrip(SubSeq(s, 1, Len(s) - 1), ch) ELSE s

\* sep.join(parts)
RECURSIVE join(_, _)
join(sep, parts) ==
    IF parts = <<>> THEN <<>>
    ELSE IF Len(parts) = 1 THEN parts[1]
    ELSE parts[1] \o sep \o join(sep, Tail(parts))

\* f"{k}={v}"
key_equals_value(kv) == <<kv[1], "=", kv[2]>>

\* PolicyManager.build_url
build_url(base, items) ==
    rstrip(base, "?") \o <<"?">>
        \o join(<<"&">>, [i \in DOMAIN items |-> key_equals_value(items[i])])

(***************************************************************************)
(* State.                                                                  *)
(***************************************************************************)
VARIABLES
    policies,                \* self.policies, NoPolicy before PolicyManager() ran
    registry_answer,         \* what the registry answers, to the GET of
                             \* _discover_registry and since
    registry_response_data,  \* self.registry_response_data
    cache_file,              \* cached_mcp_servers.json
    now,                     \* the clock, in ticks
    ret,                     \* the call made by the last step, NoCall if it made none
    upserted,                \* history: the item ids update_cache() was called for
    requested_url,           \* the url of the GET of _discover_registry
    http_gets,               \* history: the GETs this process has issued
    saving,                  \* the _save_json() in progress
    run,                     \* the get_verifiable_mcp_endpoint() in progress
    client,                  \* the MCPClient of enforce_nanda.py
    resolvers                \* the update_cache() in progress in each of two processes

vars ==
    <<policies, registry_answer, registry_response_data, cache_file, now, ret, upserted,
      requested_url, http_gets, saving, run, client, resolvers>>

\* what one call of a PolicyManager method, run to its end, leaves alone
in_progress == <<saving, run, client, resolvers>>

policy_metrics == policies.qualifiers_metrics

\* a call: its name, its item argument, the cache file before it and its outcome
Call(op, arg, before, outcome) ==
    [op |-> op, arg |-> arg, before |-> before, outcome |-> outcome]

NoOutcome == Outcome("return", TRUE, "", "", <<>>, EmptyDict, MissingFile, FALSE)
NoCall == Call("none", EmptyDict, MissingFile, NoOutcome)

\* sequences over S of length at most n
RECURSIVE SeqUpTo(_, _)
SeqUpTo(S, n) ==
    IF n = 0 THEN {<<>>}
    ELSE LET shorter == SeqUpTo(S, n - 1) IN
         shorter \cup {Append(q, x) : q \in shorter, x \in S}

\* registry listings: no item is listed twice
Listings(S, n) == {q \in SeqUpTo(S, n) : \A i, j \in DOMAIN q : i # j => q[i] # q[j]}

\* the registry answers of a working or failing registry
Answers ==
    {Answer(FALSE, NotJson), Answer(TRUE, NotJson),
     Answer(TRUE, Body(TRUE, JsonObject("absent", <<>>)))}
    \cup {Answer(TRUE, Body(TRUE, JsonObject("list", items))) : items \in Listings(ItemPool, MaxItems)}

InitialCacheFiles == {MissingFile, CacheFile("ok", <<>>)}

\* no _save_json() is in progress
NotSaving ==
    [stage |-> "idle", item |-> EmptyDict, previous |-> MissingFile, pending |-> MissingFile]

\* no get_verifiable_mcp_endpoint() is in progress
NotRunning == [pc |-> "idle", i |-> 0, phases |-> <<>>]

\* what PolicyManager().get_verifiable_mcp_endpoint() gave connect_to_sse_server():
\* None, a str, or an exception
Resolution(kind, s) == [kind |-> kind, s |-> s]

\* the two processes that may run update_cache() at the same time
Resolvers == {"r1", "r2"}

\* a resolver outside update_cache()
NotUpdating == [pc |-> "idle", item |-> EmptyDict, cache |-> MissingFile, t |-> 0]

NoResolvers == [r \in Resolvers |-> NotUpdating]

\* no MCPClient yet.  session, _session_context and _streams_context are None
\* (FALSE) or set; the counters are histories
NoClient ==
    [pc |-> "none", endpoint |-> Resolution("None", <<>>), server_url |-> <<>>,
     session |-> FALSE, _session_context |-> FALSE, _streams_context |-> FALSE,
     connects |-> 0, session_entered |-> FALSE, streams_entered |-> FALSE,
     session_exits |-> 0, streams_exits |-> 0,
     queries |-> 0, tool_calls |-> 0, reply |-> "none"]

\* no process runs yet
NotStarted ==
    /\ policies = NoPolicy
    /\ registry_answer = Answer(FALSE, NotJson)
    /\ registry_response_data = JsonObject("absent", <<>>)
    /\ now = 0
    /\ ret = NoCall
    /\ upserted = {}
    /\ requested_url = <<>>
    /\ http_gets = 0
    /\ saving = NotSaving
    /\ run = NotRunning
    /\ client = NoClient
    /\ resolvers = NoResolvers

Init ==
    /\ NotStarted
    /\ cache_file \in InitialCacheFiles

\* PolicyManager.__init__ at the start of a process: load the policy, discover, keep
\* the decoded answer
Construct(policy, answer) ==
    /\ ~policies.loaded
    /\ policies' = policy
    /\ registry_answer' = answer
    /\ registry_response_data' = discover_registry_data(answer)
    /\ requested_url' = build_url(policy.registry_discovery_end_point, criteria_items)
    /\ http_gets' = http_gets + 2
    /\ ret' = Call("__init__", EmptyDict, MissingFile, NoOutcome)
    /\ UNCHANGED <<cache_file, now, upserted, in_progress>>

\* a call of get_verifiable_mcp_endpoint()
Resolve ==
    /\ policies.loaded
    /\ LET o == get_verifiable_mcp_endpoint(policies, registry_response_data, cache_file, now) IN
        /\ cache_file' = o.file
        /\ ret' = Call("get_verifiable_mcp_endpoint", EmptyDict, cache_file, o)
        /\ upserted' = IF "id" \in o.updated.keys THEN upserted \cup {o.updated.id} ELSE upserted
    /\ UNCHANGED <<policies, registry_answer, registry_response_data, now,
                   requested_url, http_gets, in_progress>>

\* a call of update_cache(item, criteria)
UpdateCache(item) ==
    /\ policies.loaded
    /\ LET u == update_cache(item, DefaultCriteria, cache_file, now) IN
        /\ cache_file' = u.file
        /\ ret' = Call("update_cache", item, cache_file,
                       Outcome(IF u.exc = "" THEN "return" ELSE "raise", u.exc = "", "",
                               u.exc, <<>>, item, u.file, u.wrote))
    /\ upserted' = IF "id" \in item.keys THEN upserted \cup {item.id} ELSE upserted
    /\ UNCHANGED <<policies, registry_answer, registry_response_data, now,
                   requested_url, http_gets, in_progress>>

\* a call of load_cached_endpoint()
LoadCachedEndpoint ==
    /\ policies.loaded
    /\ LET c == load_cached_endpoint(cache_file) IN
        ret' = Call("load_cached_endpoint", EmptyDict, cache_file,
                    Outcome(c.out, c.none, c.url, c.exc, <<>>, EmptyDict, cache_file, FALSE))
    /\ UNCHANGED <<policies, registry_answer, registry_response_data, cache_file, now, upserted,
                   requested_url, http_gets, in_progress>>

\* the process ends; only the cache file outlives it
Exit ==
    /\ policies.loaded
    /\ policies' = NoPolicy
    /\ registry_answer' = Answer(FALSE, NotJson)
    /\ registry_response_data' = JsonObject("absent", <<>>)
    /\ requested_url' = <<>>
    /\ http_gets' = 0
    /\ ret' = NoCall
    /\ UNCHANGED <<cache_file, now, upserted, in_progress>>

\* the clock advances by one tick
TickSmall ==
    /\ now % (timedelta_hours_72 - 1) < MaxSmallTicks
    /\ now' = now + 1
    /\ ret' = NoCall
    /\ UNCHANGED <<policies, registry_answer, registry_response_data, cache_file, upserted,
                   requested_url, http_gets, in_progress>>

\* the clock advances by one tick less than the freshness window
TickWindow ==
    /\ now \div (timedelta_hours_72 - 1) < MaxWindows
    /\ now' = now + (timedelta_hours_72 - 1)
    /\ ret' = NoCall
    /\ UNCHANGED <<policies, registry_answer, registry_response_data, cache_file, upserted,
                   requested_url, http_gets, in_progress>>

Next ==
    \/ \E policy \in Policies, answer \in Answers : Construct(policy, answer)
    \/ Resolve
    \/ \E item \in ItemPool : UpdateCache(item)
    \/ LoadCachedEndpoint
    \/ Exit
    \/ TickSmall
    \/ TickWindow

Spec == Init /\ [][Next]_vars

(***************************************************************************)
(* The same program with registry bodies and cache files of any shape:     *)
(* JSON bodies that hold no list under "data", and cache files that are    *)
(* missing, not JSON, JSON of another shape, or hold damaged entries.      *)
(***************************************************************************)
\* {"data": null}, and JSON text that is an array, a string, a number or null
BodiesWithoutData ==
    {Body(TRUE, JsonObject("null", <<>>)), Body(TRUE, JsonOther("array")),
     Body(TRUE, JsonOther("string")), Body(TRUE, JsonOther("number")),
     Body(TRUE, JsonOther("null"))}

AnswersOfAnyShape ==
    {Answer(TRUE, body) : body \in BodiesWithoutData}
    \cup {Answer(FALSE, NotJson), Answer(TRUE, Body(TRUE, JsonObject("absent", <<>>))),
          Answer(TRUE, Body(TRUE, JsonObject("list", <<>>))),
          Answer(TRUE, Body(TRUE, JsonObject("list", <<ItemA>>)))}

\* an entry as update_cache wrote it at time 0, and damaged forms of it
EntryA == CacheEntry(ItemA, DefaultCriteria, 0)
EntryWithoutLastCached == [EntryA EXCEPT !.keys = EntryKeys \ {"last_cached"}]
EntryWithOtherTimeFormat == [EntryA EXCEPT !.last_cached = [fmt |-> "%Y-%m-%dT%H:%M:%S", sec |-> 0]]
EntryWithoutDataItem ==
    [EntryA EXCEPT !.keys = EntryKeys \ {"data_item"}, !.data_item = EmptyDict]
EntryWithoutUptime == [EntryA EXCEPT !.data_item.keys = ItemKeys \ {"uptime"}]

CacheFilesOfAnyShape ==
    {MissingFile, CacheFile("invalid_json", <<>>), CacheFile("not_object", <<>>),
     CacheFile("no_key", <<>>), CacheFile("null_list", <<>>)}
    \cup {CacheFile("ok", <<e>>) :
            e \in {EntryA, EntryWithoutLastCached, EntryWithOtherTimeFormat,
                   EntryWithoutDataItem, EntryWithoutUptime}}

InitAnyShape ==
    /\ NotStarted
    /\ cache_file \in CacheFilesOfAnyShape

NextAnyShape ==
    \/ \E policy \in Policies, answer \in AnswersOfAnyShape : Construct(policy, answer)
    \/ Resolve
    \/ \E item \in ItemPool : UpdateCache(item)
    \/ Exit

SpecAnyShape == InitAnyShape /\ [][NextAnyShape]_vars

(***************************************************************************)
(* The matcher alone: match_policy_and_get_url() and _item_passes_policy() *)
(* called on registry listings over every combination of item fields.      *)
(***************************************************************************)
MatchItems ==
    {RegistryItem("m", URL_A, provider, verified, relevance_score, uptime) :
        provider \in {acme, ac, other}, verified \in BOOLEAN,
        relevance_score \in 1..2, uptime \in 1..2}

InitMatch ==
    /\ policies \in Policies
    /\ \E items \in Listings(MatchItems, MaxItems) :
        /\ registry_answer = Answer(TRUE, Body(TRUE, JsonObject("list", items)))
        /\ registry_response_data = JsonObject("list", items)
    /\ cache_file = MissingFile
    /\ now = 0
    /\ ret = NoCall
    /\ upserted = {}
    /\ requested_url = build_url(policies.registry_discovery_end_point, criteria_items)
    /\ http_gets = 2
    /\ saving = NotSaving
    /\ run = NotRunning
    /\ client = NoClient
    /\ resolvers = NoResolvers

\* a call of match_policy_and_get_url(); ret.arg is the item returned
MatchCall ==
    /\ LET m == match_policy_and_get_url(registry_response_data, policy_metrics) IN
        ret' = Call("match_policy_and_get_url", m.item, MissingFile,
                    Outcome(m.out, m.none, "", m.exc, <<>>, EmptyDict, MissingFile, FALSE))
    /\ UNCHANGED <<policies, registry_answer, registry_response_data, cache_file, now, upserted,
                   requested_url, http_gets, in_progress>>

\* a call of _item_passes_policy(item); ret.outcome.value is the bool returned
PassesCall(item) ==
    /\ LET c == _item_passes_policy(item, policy_metrics) IN
        ret' = Call("_item_passes_policy", item, MissingFile,
                    Outcome(IF c = "KeyError" THEN "raise" ELSE "return", FALSE,
                            IF c = "KeyError" THEN "" ELSE c,
                            IF c = "KeyError" THEN c ELSE "", <<>>, EmptyDict, MissingFile, FALSE))
    /\ UNCHANGED <<policies, registry_answer, registry_response_data, cache_file, now, upserted,
                   requested_url, http_gets, in_progress>>

NextMatch ==
    \/ MatchCall
    \/ \E i \in DOMAIN registry_response_data.items : PassesCall(registry_response_data.items[i])

SpecMatch == InitMatch /\ [][NextMatch]_vars

(***************************************************************************)
(* update_cache() with _save_json() taken step by step: open(path, 'w')    *)
(* truncates the file, json.dump() writes the text through the buffer of   *)
(* the file object, leaving the `with` block closes the file.  Another     *)
(* process may read the file, and the process may be killed, at any step.  *)
(***************************************************************************)
\* a file that was truncated, or holds the text in part: its text is not JSON
UnfinishedFile == CacheFile("invalid_json", <<>>)

SaveAnswers ==
    {Answer(FALSE, NotJson), Answer(TRUE, Body(TRUE, JsonObject("list", <<ItemA>>)))}

\* update_cache(item, criteria) up to the open(path, 'w') of _save_json, or to
\* its return when the entry of the item is fresh
UpdateCacheOpen(item) ==
    /\ policies.loaded
    /\ saving.stage = "idle"
    /\ LET u == update_cache(item, DefaultCriteria, cache_file, now) IN
        IF u.wrote
        THEN /\ saving' = [stage |-> "truncated", item |-> item,
                           previous |-> cache_file, pending |-> u.file]
             /\ cache_file' = UnfinishedFile
             /\ ret' = Call("open", item, cache_file, NoOutcome)
        ELSE /\ ret' = Call("update_cache", item, cache_file,
                            Outcome(IF u.exc = "" THEN "return" ELSE "raise", u.exc = "", "",
                                    u.exc, <<>>, item, u.file, u.wrote))
             /\ UNCHANGED <<saving, cache_file>>
    /\ upserted' = IF "id" \in item.keys THEN upserted \cup {item.id} ELSE upserted
    /\ UNCHANGED <<policies, registry_answer, registry_response_data, now,
                   requested_url, http_gets, run, client, resolvers>>

\* json.dump() filled the buffer: the first part of the text reaches the file
SaveFlush ==
    /\ saving.stage = "truncated"
    /\ saving' = [saving EXCEPT !.stage = "partial"]
    /\ cache_file' = UnfinishedFile
    /\ ret' = Call("write", saving.item, saving.previous, NoOutcome)
    /\ UNCHANGED <<policies, registry_answer, registry_response_data, now, upserted,
                   requested_url, http_gets, run, client, resolvers>>

\* the `with` block ends: the rest of the text is written, update_cache() returns
SaveClose ==
    /\ saving.stage \in {"truncated", "partial"}
    /\ cache_file' = save_cache(saving.pending)
    /\ saving' = NotSaving
    /\ ret' = Call("update_cache", saving.item, saving.previous,
                   Outcome("return", TRUE, "", "", <<>>, saving.item, saving.pending, TRUE))
    /\ UNCHANGED <<policies, registry_answer, registry_response_data, now, upserted,
                   requested_url, http_gets, run, client, resolvers>>

\* the process is killed during the save: the file stays as it is
Killed ==
    /\ saving.stage # "idle"
    /\ saving' = NotSaving
    /\ policies' = NoPolicy
    /\ registry_answer' = Answer(FALSE, NotJson)
    /\ registry_response_data' = JsonObject("absent", <<>>)
    /\ requested_url' = <<>>
    /\ http_gets' = 0
    /\ ret' = NoCall
    /\ UNCHANGED <<cache_file, now, upserted, run, client, resolvers>>

\* the process ends between two calls
ExitIdle ==
    /\ saving.stage = "idle"
    /\ run.pc \in {"idle", "returned"}
    /\ resolvers = NoResolvers
    /\ Exit

NextSave ==
    \/ \E policy \in Policies, answer \in SaveAnswers : Construct(policy, answer)
    \/ \E item \in ItemPool : UpdateCacheOpen(item)
    \/ SaveFlush
    \/ SaveClose
    \/ Killed
    \/ LoadCachedEndpoint
    \/ ExitIdle

SpecSave == Init /\ [][NextSave]_vars

(***************************************************************************)
(* A registry whose answer changes while a PolicyManager lives.            *)
(***************************************************************************)
RegistryAnswers ==
    {Answer(FALSE, NotJson)}
    \cup {Answer(TRUE, Body(TRUE, JsonObject("list", items))) : items \in Listings(ItemPool, 1)}

\* the registry's answer changes; no GET is made
RegistryChanges(answer) ==
    /\ policies.loaded
    /\ answer # registry_answer
    /\ registry_answer' = answer
    /\ ret' = NoCall
    /\ UNCHANGED <<policies, registry_response_data, cache_file, now, upserted,
                   requested_url, http_gets, in_progress>>

NextRegistry ==
    \/ \E policy \in Policies, answer \in RegistryAnswers : Construct(policy, answer)
    \/ \E answer \in RegistryAnswers : RegistryChanges(answer)
    \/ Resolve
    \/ Exit

SpecRegistry == Init /\ [][NextRegistry]_vars

(***************************************************************************)
(* get_verifiable_mcp_endpoint() taken one loop iteration at a time: the   *)
(* for loop of match_policy_and_get_url(), the for loop over the cache,    *)
(* the final return None.  The thread that runs it keeps running.          *)
(***************************************************************************)
\* mutant: the loop looks at the same element again
for_next_same(i) == i

\* a for loop goes on to the next element of its list
for_next(i) == i + 1

\* the call starts: match_policy_and_get_url() is entered
Begin ==
    /\ policies.loaded
    /\ run.pc \in {"idle", "returned"}
    /\ run' = [pc |-> "live", i |-> 1, phases |-> <<"live">>]
    /\ ret' = NoCall
    /\ UNCHANGED <<policies, registry_answer, registry_response_data, cache_file, now, upserted,
                   requested_url, http_gets, saving, client, resolvers>>

Returned(phases) == [pc |-> "returned", i |-> 0, phases |-> phases]

\* one iteration of the loop of match_policy_and_get_url(); on a match the rest of
\* the live phase; after the last item the fallback begins
LiveStep ==
    /\ run.pc = "live"
    /\ LET data == registry_response_data
           whole == match_policy_and_get_url(data, policy_metrics)
           items == IF data.data = "list" THEN data.items ELSE <<>>
       IN  IF data.shape # "object" \/ data.data = "null"
           THEN /\ run' = Returned(run.phases)
                /\ ret' = Call("get_verifiable_mcp_endpoint", EmptyDict, cache_file,
                               Outcome("raise", FALSE, "", whole.exc, run.phases, EmptyDict,
                                       cache_file, FALSE))
                /\ UNCHANGED <<cache_file, upserted>>
           ELSE IF run.i > Len(items)
           THEN /\ run' = [pc |-> "fallback", i |-> 1, phases |-> Append(run.phases, "fallback")]
                /\ UNCHANGED <<cache_file, upserted, ret>>
           ELSE LET c == and_chain(QualifierOrder, items[run.i], vp_of(policy_metrics)) IN
                IF c = "False"
                THEN /\ run' = [run EXCEPT !.i = for_next(run.i)]
                     /\ UNCHANGED <<cache_file, upserted, ret>>
                ELSE IF c = "KeyError"
                THEN /\ run' = Returned(run.phases)
                     /\ ret' = Call("get_verifiable_mcp_endpoint", EmptyDict, cache_file,
                                    Outcome("raise", FALSE, "", c, run.phases, EmptyDict,
                                            cache_file, FALSE))
                     /\ UNCHANGED <<cache_file, upserted>>
                ELSE LET o == live_phase(items[run.i], policies, cache_file, now) IN
                     /\ run' = Returned(run.phases)
                     /\ cache_file' = o.file
                     /\ ret' = Call("get_verifiable_mcp_endpoint", EmptyDict, cache_file, o)
                     /\ upserted' = IF "id" \in o.updated.keys
                                    THEN upserted \cup {o.updated.id} ELSE upserted
    /\ UNCHANGED <<policies, registry_answer, registry_response_data, now,
                   requested_url, http_gets, saving, client, resolvers>>

\* one iteration of the loop over the cache; after the last entry the phases are
\* exhausted
FallbackStep ==
    /\ run.pc = "fallback"
    /\ LET cache == load_cache(cache_file) IN
       IF cache.kind \in {"not_object", "null_list"}
       THEN /\ run' = Returned(run.phases)
            /\ ret' = Call("get_verifiable_mcp_endpoint", EmptyDict, cache_file,
                           Outcome("raise", FALSE, "", cache_fallback(cache_file, policy_metrics).exc,
                                   run.phases, EmptyDict, cache_file, FALSE))
       ELSE IF run.i > Len(cache.cached_mcp)
       THEN /\ run' = [pc |-> "exhausted", i |-> 0, phases |-> Append(run.phases, "exhausted")]
            /\ UNCHANGED ret
       ELSE LET c == fallback_from(1, <<cache.cached_mcp[run.i]>>, policy_metrics) IN
            IF c.out = "return" /\ c.none
            THEN /\ run' = [run EXCEPT !.i = for_next(run.i)]
                 /\ UNCHANGED ret
            ELSE /\ run' = Returned(run.phases)
                 /\ ret' = Call("get_verifiable_mcp_endpoint", EmptyDict, cache_file,
                                Outcome(c.out, FALSE, c.url, c.exc, run.phases, EmptyDict,
                                        cache_file, FALSE))
    /\ UNCHANGED <<policies, registry_answer, registry_response_data, cache_file, now, upserted,
                   requested_url, http_gets, saving, client, resolvers>>

\* the final return None
ExhaustedStep ==
    /\ run.pc = "exhausted"
    /\ run' = Returned(run.phases)
    /\ ret' = Call("get_verifiable_mcp_endpoint", EmptyDict, cache_file,
                   Outcome("return", TRUE, "", "", run.phases, EmptyDict, cache_file, FALSE))
    /\ UNCHANGED <<policies, registry_answer, registry_response_data, cache_file, now, upserted,
                   requested_url, http_gets, saving, client, resolvers>>

RunStep == LiveStep \/ FallbackStep \/ ExhaustedStep

NextPhases ==
    \/ \E policy \in Policies, answer \in Answers : Construct(policy, answer)
    \/ Begin
    \/ LiveStep
    \/ FallbackStep
    \/ ExhaustedStep
    \/ ExitIdle

SpecPhases == Init /\ [][NextPhases]_vars /\ WF_vars(RunStep)

(***************************************************************************)
(* Policy documents whose qualifiers_metrics lacks one of the four         *)
(* qualifiers the matcher reads, or holds one of another name.             *)
(***************************************************************************)
RequiredQualifiers == {QualifierOrder[i] : i \in DOMAIN QualifierOrder}

\* the metrics without the one of that name
Without(qualifiers_metrics, name) == SelectSeq(qualifiers_metrics, LAMBDA q : q.name # name)

PolicyRegion ==
    PolicyDocument(TRUE, Append(Metrics(PyList(<<acme>>), 1, 1), Qualifier("region", PyStr(acme))))

QualifierPolicies ==
    {PolicyLoose, PolicyRegion}
    \cup {PolicyDocument(TRUE, Without(Metrics(PyList(<<acme>>), 1, 1), name)) :
            name \in RequiredQualifiers}

NextQualifiers ==
    \/ \E policy \in QualifierPolicies, answer \in RegistryAnswers : Construct(policy, answer)
    \/ Resolve
    \/ Exit

SpecQualifiers == Init /\ [][NextQualifiers]_vars

(***************************************************************************)
(* Policy documents over every registry_discovery_end_point of a few       *)
(* characters: "u" and "x" stand for any character but "?".                *)
(***************************************************************************)
EndPoints == SeqUpTo({"u", "x", "?"}, MaxBaseLen)

EndPointPolicies == {[PolicyLoose EXCEPT !.registry_discovery_end_point = base] : base \in EndPoints}

NextUrl ==
    \/ \E policy \in EndPointPolicies, answer \in SaveAnswers : Construct(policy, answer)
    \/ Resolve
    \/ Exit

SpecUrl == Init /\ [][NextUrl]_vars

(***************************************************************************)
(* The client of enforce_nanda.py: main() creates an MCPClient, connects   *)
(* after resolution, runs the chat loop and cleans up.                     *)
(***************************************************************************)
\* str.lower(), on the letters the end points are written with
lower_char(c) ==
    CASE c = "H" -> "h" [] c = "T" -> "t" [] c = "P" -> "p" [] c = "S" -> "s" [] OTHER -> c

lower(s) == [i \in DOMAIN s |-> lower_char(s[i])]

\* mutant: every prefix is found
startswith_anything(s, prefix) == TRUE

\* str.startswith(prefix)
startswith(s, prefix) == Len(s) >= Len(prefix) /\ SubSeq(s, 1, Len(prefix)) = prefix

http_prefix == <<"h", "t", "t", "p", ":", "/", "/">>
https_prefix == <<"h", "t", "t", "p", "s", ":", "/", "/">>

\* server_url.lower().startswith(("http://", "https://"))
is_http_url(server_url) ==
    startswith(lower(server_url), http_prefix) \/ startswith(lower(server_url), https_prefix)

\* endpoint.rstrip("/") + "/sse"
sse_url(endpoint) == rstrip(endpoint, "/") \o <<"/", "s", "s", "e">>

\* the urls a registry item or a cache entry may carry
EndpointStrings ==
    {scheme \o host \o slashes :
        scheme \in {<<>>, <<"h", "t", "t", "p", ":", "/">>, http_prefix, https_prefix,
                    <<"H", "T", "T", "P", ":", "/", "/">>, <<"f", "t", "p", ":", "/", "/">>},
        host \in {<<>>, <<"x">>},
        slashes \in {<<>>, <<"/">>, <<"/", "/">>}}

Resolutions ==
    {Resolution("None", <<>>), Resolution("raise", <<>>)}
    \cup {Resolution("str", s) : s \in EndpointStrings}

\* where the try block of connect_to_sse_server() may raise
ConnectOutcomes == {"ok", "sse_client", "streams_enter", "session_enter", "initialize"}

\* client = MCPClient()
NewClient ==
    /\ client.pc = "none"
    /\ client' = [NoClient EXCEPT !.pc = "created"]
    /\ UNCHANGED <<policies, registry_answer, registry_response_data, cache_file, now, ret,
                   upserted, requested_url, http_gets, saving, run, resolvers>>

\* the try block of connect_to_sse_server() and its handler
connect(c, outcome) ==
    LET streams_set == outcome # "sse_client"
        session_set == outcome \in {"session_enter", "initialize", "ok"}
        failed == outcome # "ok"
    IN  [c EXCEPT !.connects = @ + 1,
                  !.streams_entered = outcome \in {"session_enter", "initialize", "ok"},
                  !.session_entered = outcome \in {"initialize", "ok"},
                  !._streams_context = streams_set,
                  !._session_context = session_set,
                  !.session = outcome = "ok",
                  !.session_exits = IF failed /\ session_set THEN @ + 1 ELSE @,
                  !.streams_exits = IF failed /\ streams_set THEN @ + 1 ELSE @]

\* await client.connect_to_sse_server(server_url)
ConnectToSseServer(endpoint, outcome) ==
    /\ client.pc = "created"
    /\ LET c == [client EXCEPT !.endpoint = endpoint] IN
       IF endpoint.kind = "raise"
       THEN client' = [c EXCEPT !.pc = "failed"]
       ELSE IF endpoint.kind = "None" \/ endpoint.s = <<>>
       THEN client' = [c EXCEPT !.pc = "chat"]
       ELSE LET server_url == sse_url(endpoint.s) IN
            IF ~is_http_url(server_url)
            THEN client' = [c EXCEPT !.pc = "chat", !.server_url = server_url]
            ELSE client' = connect([c EXCEPT !.pc = "chat", !.server_url = server_url], outcome)
    /\ UNCHANGED <<policies, registry_answer, registry_response_data, cache_file, now, ret,
                   upserted, requested_url, http_gets, saving, run, resolvers>>

\* one query of chat_loop(): process_query(query), its exceptions printed
ProcessQuery(llm) ==
    /\ client.pc = "chat"
    /\ client.queries < MaxQueries
    /\ client' =
        IF llm = "error"
        THEN [client EXCEPT !.queries = @ + 1, !.reply = "error"]
        ELSE IF ~client.session
        THEN [client EXCEPT !.queries = @ + 1, !.reply = "llm_only"]
        ELSE IF llm = "tool_use"
        THEN [client EXCEPT !.queries = @ + 1, !.reply = "tool_output", !.tool_calls = @ + 1]
        ELSE [client EXCEPT !.queries = @ + 1, !.reply = "llm_with_tools"]
    /\ UNCHANGED <<policies, registry_answer, registry_response_data, cache_file, now, ret,
                   upserted, requested_url, http_gets, saving, run, resolvers>>

\* the finally of main(): client.cleanup()
Cleanup ==
    /\ client.pc \in {"chat", "failed"}
    /\ client' = [client EXCEPT !.pc = "closed",
                                !.session_exits = IF client._session_context THEN @ + 1 ELSE @,
                                !.streams_exits = IF client._streams_context THEN @ + 1 ELSE @]
    /\ UNCHANGED <<policies, registry_answer, registry_response_data, cache_file, now, ret,
                   upserted, requested_url, http_gets, saving, run, resolvers>>

NextClient ==
    \/ NewClient
    \/ \E endpoint \in Resolutions, outcome \in ConnectOutcomes :
        ConnectToSseServer(endpoint, outcome)
    \/ \E llm \in {"text", "tool_use", "error"} : ProcessQuery(llm)
    \/ Cleanup

SpecClient == Init /\ [][NextClient]_vars

(***************************************************************************)
(* Two processes in update_cache() at the same time.  Each reads the file  *)
(* with load_cache() and the clock with datetime.now(), then works on its  *)
(* own copy and writes it back with save_cache(); nothing locks the file   *)
(* in between.                                                             *)
(***************************************************************************)
RaceItems == {ItemA, ItemBSubstr}

\* update_cache(item, criteria) of resolver r up to datetime.now(): the cache is
\* loaded
RaceLoad(r, item) ==
    /\ policies.loaded
    /\ resolvers[r].pc = "idle"
    /\ resolvers' = [resolvers EXCEPT ![r] =
                        [pc |-> "loaded", item |-> item, cache |-> load_cache(cache_file),
                         t |-> now]]
    /\ ret' = NoCall
    /\ UNCHANGED <<policies, registry_answer, registry_response_data, cache_file, now, upserted,
                   requested_url, http_gets, saving, run, client>>

\* the rest of update_cache() of resolver r: the freshness test, the new entry,
\* save_cache() of the copy it loaded
RaceSave(r) ==
    /\ resolvers[r].pc = "loaded"
    /\ LET item == resolvers[r].item
           u == update_cache(item, DefaultCriteria, resolvers[r].cache, resolvers[r].t)
       IN  /\ cache_file' = IF u.wrote THEN save_cache(u.file) ELSE cache_file
           /\ ret' = Call("update_cache", item, cache_file,
                          Outcome(IF u.exc = "" THEN "return" ELSE "raise", u.exc = "", "",
                                  u.exc, <<>>, item, u.file, u.wrote))
           /\ upserted' = IF "id" \in item.keys THEN upserted \cup {item.id} ELSE upserted
    /\ resolvers' = [resolvers EXCEPT ![r] = NotUpdating]
    /\ UNCHANGED <<policies, registry_answer, registry_response_data, now,
                   requested_url, http_gets, saving, run, client>>

NextRace ==
    \/ Construct(PolicyLoose, Answer(FALSE, NotJson))
    \/ \E r \in Resolvers, item \in RaceItems : RaceLoad(r, item)
    \/ \E r \in Resolvers : RaceSave(r)
    \/ ExitIdle
    \/ TickSmall
    \/ TickWindow

SpecRace == Init /\ [][NextRace]_vars

(***************************************************************************)
(* The qualifiers as the specification states them.                        *)
(***************************************************************************)
\* the value the current policy gives the qualifier of a name
QualifierValue(name) ==
    policy_metrics[CHOOSE i \in DOMAIN policy_metrics : policy_metrics[i].name = name].value

VerifiedHolds(item) == item.verified = QualifierValue("verified").b

\* the item's provider is contained in the qualifier's value: an element of the
\* list, or a run of characters of the string
ProviderHolds(item) ==
    LET value == QualifierValue("provider") IN
    IF value.py = "list"
    THEN item.provider \in {value.l[i] : i \in DOMAIN value.l}
    ELSE \/ item.provider = <<>>
         \/ \E i, j \in DOMAIN value.s : SubSeq(value.s, i, j) = item.provider

RelevanceHolds(item) == ~(item.relevance_score < QualifierValue("relevance_score").n)

UptimeHolds(item) == ~(item.uptime < QualifierValue("uptime").n)

Qualifies(item) ==
    VerifiedHolds(item) /\ ProviderHolds(item) /\ RelevanceHolds(item) /\ UptimeHolds(item)

\* the candidates of the live phase and the entries of the cache a call started from
LiveItems == registry_response_data.items
CachedBefore == ret.before.cached_mcp

LiveQualifying == {i \in DOMAIN LiveItems : Qualifies(LiveItems[i])}
CachedQualifying == {i \in DOMAIN CachedBefore : Qualifies(CachedBefore[i].data_item)}

Lowest(S) == CHOOSE i \in S : \A j \in S : i <= j

Resolved == ret.op = "get_verifiable_mcp_endpoint"
ReturnedUrl(url) ==
    ret.outcome.out = "return" /\ ~ret.outcome.none /\ ret.outcome.value = url

(***************************************************************************)
(* C1. Fallback ordering (P5): when no live item passes all qualifiers and *)
(* the cache holds an entry whose data_item passes the current qualifiers, *)
(* get_verifiable_mcp_endpoint() returns the mcp_endpoint of the first     *)
(* such entry in stored order, and not None.                               *)
(***************************************************************************)
C1_FallbackOrdering ==
    (Resolved /\ LiveQualifying = {} /\ CachedQualifying # {})
        => ReturnedUrl(CachedBefore[Lowest(CachedQualifying)].mcp_endpoint)

\* the fallback returned an entry that is not the first of the cache
C1_Witness ==
    /\ Resolved /\ LiveQualifying = {} /\ CachedQualifying # {}
    /\ Lowest(CachedQualifying) > 1
    /\ ReturnedUrl(CachedBefore[Lowest(CachedQualifying)].mcp_endpoint)
    /\ CachedBefore[1].mcp_endpoint # ret.outcome.value

(***************************************************************************)
(* C2. Live phase takes precedence: when some registry item passes all     *)
(* qualifiers, the call returns the url of the matched item (the first     *)
(* passing one) without entering the cache-fallback phase, whatever the    *)
(* cache holds; the fallback phase is entered only after the live phase    *)
(* found no match.                                                         *)
(***************************************************************************)
C2_LivePrecedence ==
    Resolved =>
        /\ LiveQualifying # {} =>
            /\ ReturnedUrl(LiveItems[Lowest(LiveQualifying)].url)
            /\ ret.outcome.phases = <<"live">>
        /\ (\E i \in DOMAIN ret.outcome.phases : ret.outcome.phases[i] = "fallback") =>
            /\ LiveQualifying = {}
            /\ ret.outcome.phases[1] = "live"

\* a live match was returned although the cache held a passing entry of another endpoint
C2_Witness ==
    /\ Resolved /\ LiveQualifying # {} /\ CachedQualifying # {}
    /\ ret.outcome.phases = <<"live">>
    /\ ReturnedUrl(LiveItems[Lowest(LiveQualifying)].url)
    /\ CachedBefore[Lowest(CachedQualifying)].mcp_endpoint # ret.outcome.value

(***************************************************************************)
(* C3. Exhausted outcome: get_verifiable_mcp_endpoint() returns None       *)
(* exactly when no live item and no cached data_item passes all            *)
(* qualifiers; in every other case it returns the URL of a passing item.   *)
(***************************************************************************)
C3_ExhaustedOutcome ==
    Resolved =>
        /\ ret.outcome.out = "return"
        /\ ret.outcome.none <=> (LiveQualifying = {} /\ CachedQualifying = {})
        /\ ~ret.outcome.none =>
            ret.outcome.value \in
                {LiveItems[i].url : i \in LiveQualifying}
                \cup {CachedBefore[i].mcp_endpoint : i \in CachedQualifying}

\* the registry call failed, the cache was empty, and the call returned None
C3_Witness ==
    /\ Resolved /\ ~registry_answer.ok /\ CachedBefore = <<>>
    /\ ret.outcome.out = "return" /\ ret.outcome.none
    /\ ret.outcome.phases = <<"live", "fallback", "exhausted">>

(***************************************************************************)
(* C4. First match in registry order: match_policy_and_get_url() returns   *)
(* the item of lowest index in the data list that satisfies all four       *)
(* qualifiers, or None if there is none; nothing but the order of the      *)
(* list breaks a tie.                                                      *)
(***************************************************************************)
Matched == ret.op = "match_policy_and_get_url"

C4_FirstMatch ==
    Matched =>
        /\ ret.outcome.out = "return"
        /\ ret.outcome.none <=> LiveQualifying = {}
        /\ LiveQualifying # {} => ret.arg = LiveItems[Lowest(LiveQualifying)]

\* two items qualify, the later one has the higher relevance_score, the
\* earlier one was returned
C4_Witness ==
    /\ Matched /\ ~ret.outcome.none
    /\ \E i, j \in LiveQualifying :
        /\ i < j
        /\ LiveItems[i].relevance_score < LiveItems[j].relevance_score
        /\ ret.arg = LiveItems[i]

(***************************************************************************)
(* C5. Conjunctive matching (P2): an item failing any one of the four      *)
(* qualifiers (verified differs, provider not contained in the allowed     *)
(* value, relevance_score or uptime below the minimum) is never returned   *)
(* by match_policy_and_get_url() nor accepted by _item_passes_policy(),    *)
(* whatever the other three are.                                           *)
(***************************************************************************)
Accepted ==
    \/ Matched /\ ret.outcome.out = "return" /\ ~ret.outcome.none
    \/ ret.op = "_item_passes_policy" /\ ret.outcome.value = "True"

C5_Conjunctive ==
    /\ Accepted => VerifiedHolds(ret.arg)
    /\ Accepted => ProviderHolds(ret.arg)
    /\ Accepted => RelevanceHolds(ret.arg)
    /\ Accepted => UptimeHolds(ret.arg)

\* an item that fails the uptime qualifier alone was refused
C5_Witness ==
    /\ ret.op = "_item_passes_policy" /\ ret.outcome.value = "False"
    /\ VerifiedHolds(ret.arg) /\ ProviderHolds(ret.arg) /\ RelevanceHolds(ret.arg)
    /\ ~UptimeHolds(ret.arg)

(***************************************************************************)
(* C6. Freshness idempotence (P3): update_cache() for an item id whose     *)
(* cache entry has last_cached less than 72 hours before now leaves the    *)
(* cache as it was (every entry and field, last_cached included) and does  *)
(* not rewrite the file.                                                   *)
(***************************************************************************)
\* the step called update_cache(), directly or from the live phase
UpdateCalled == ret.outcome.updated.keys # {}
Upserted == ret.outcome.updated

EntriesOf(cached_mcp, id) == {i \in DOMAIN cached_mcp : cached_mcp[i].data_item.id = id}

\* seconds between the stored last_cached and now are fewer than 72 hours' worth
YoungerThan72h(entry) == now < (entry.last_cached.sec + FreshHours * 3600) * TicksPerSecond

C6_FreshIdempotent ==
    (/\ UpdateCalled
     /\ \E i \in EntriesOf(CachedBefore, Upserted.id) : YoungerThan72h(CachedBefore[i]))
        => /\ cache_file = ret.before
           /\ ~ret.outcome.wrote
           /\ ret.outcome.out = "return"

\* a different item of a cached id came one tick before the 72 hours were over
C6_Witness ==
    /\ UpdateCalled /\ ~ret.outcome.wrote /\ cache_file = ret.before
    /\ \E i \in EntriesOf(CachedBefore, Upserted.id) :
        /\ now + 1 = (CachedBefore[i].last_cached.sec + FreshHours * 3600) * TicksPerSecond
        /\ CachedBefore[i].data_item # Upserted

(***************************************************************************)
(* C7. Replace-not-duplicate (P4): starting from an empty or missing cache *)
(* file, after any sequence of update_cache() calls at any times the       *)
(* cached_mcp list holds at most one entry per data_item.id and exactly    *)
(* one entry for every id ever upserted.                                   *)
(***************************************************************************)
C7_OneEntryPerId ==
    /\ \A i, j \in DOMAIN cache_file.cached_mcp :
        cache_file.cached_mcp[i].data_item.id = cache_file.cached_mcp[j].data_item.id => i = j
    /\ \A id \in upserted : Cardinality(EntriesOf(cache_file.cached_mcp, id)) = 1

\* a stale entry was replaced while another id was cached too
C7_Witness ==
    /\ UpdateCalled /\ ret.outcome.wrote
    /\ EntriesOf(CachedBefore, Upserted.id) # {}
    /\ Cardinality(upserted) = 2
    /\ Len(cache_file.cached_mcp) = 2

(***************************************************************************)
(* C8. Graceful degrade (P6): when the registry call fails at transport    *)
(* level, or its body is not valid JSON, or is the JSON object {}, no      *)
(* exception comes out of discovery or the live phase; the live phase sees *)
(* zero candidates and get_verifiable_mcp_endpoint() goes on to the        *)
(* cache-fallback phase.                                                   *)
(***************************************************************************)
Degraded ==
    \/ ~registry_answer.ok
    \/ ~registry_answer.body.is_json
    \/ registry_answer.body = Body(TRUE, JsonObject("absent", <<>>))

C8_GracefulDegrade ==
    (policies.loaded /\ Degraded) =>
        /\ registry_response_data = JsonObject("absent", <<>>)
        /\ Resolved =>
            /\ ret.outcome.out = "return"
            /\ Len(ret.outcome.phases) >= 2
            /\ ret.outcome.phases[1] = "live"
            /\ ret.outcome.phases[2] = "fallback"

\* the registry call failed and the call returned an endpoint of the cache
C8_Witness ==
    /\ policies.loaded /\ ~registry_answer.ok /\ Resolved
    /\ ret.outcome.phases = <<"live", "fallback">>
    /\ ret.outcome.out = "return" /\ ~ret.outcome.none

(***************************************************************************)
(* C9. Any registry body without a usable data list is zero candidates:    *)
(* for every body that is valid JSON but no object with a list under data  *)
(* (no data, data null, or a top-level array, string, number or null),     *)
(* resolution does not raise and does what it does for an empty list.      *)
(***************************************************************************)
NoUsableData ==
    /\ registry_answer.ok /\ registry_answer.body.is_json
    /\ registry_answer.body.doc.shape # "object" \/ registry_answer.body.doc.data # "list"

C9_NoDataIsZeroCandidates ==
    (Resolved /\ NoUsableData) =>
        /\ ret.outcome.out = "return"
        /\ ret.outcome =
            get_verifiable_mcp_endpoint(policies, JsonObject("list", <<>>), ret.before, now)

(***************************************************************************)
(* C10. Cache corruption is recovered as an empty cache: whatever the      *)
(* cache file is (missing, not JSON, JSON of another shape, entries with a *)
(* missing or malformed last_cached or data_item), load_cache(),           *)
(* update_cache() and the fallback scan never raise, and with a file that  *)
(* is no cache at all resolution returns what it returns without a cache.  *)
(***************************************************************************)
NoCacheAtAll == ret.before.kind \in {"missing", "invalid_json", "not_object", "null_list"}

C10_CorruptCacheIsEmptyCache ==
    (Resolved \/ UpdateCalled) =>
        /\ ret.outcome.out = "return"
        /\ (Resolved /\ NoCacheAtAll) =>
            LET o == get_verifiable_mcp_endpoint(policies, registry_response_data, MissingFile, now)
            IN  ret.outcome.none = o.none /\ ret.outcome.value = o.value

(***************************************************************************)
(* C11. Stale replace in place, else append: update_cache() for an id      *)
(* whose entry has last_cached 72 hours or more before now replaces that   *)
(* entry, at the same index, by a new entry with last_cached = now, every  *)
(* other entry keeping its position and content; for an id without entry   *)
(* the new entry is appended and the existing entries are unchanged.       *)
(***************************************************************************)
\* the entry update_cache() is to store: the item, its url, the flag set, and the
\* second of now as last_cached
IsNewEntry(entry) ==
    /\ entry.data_item = Upserted
    /\ entry.mcp_endpoint = Upserted.url
    /\ entry.met_protocol_criteria
    /\ entry.last_cached.fmt = TIME_FORMAT
    /\ entry.last_cached.sec * TicksPerSecond <= now
    /\ now < (entry.last_cached.sec + 1) * TicksPerSecond

CachedAfter == cache_file.cached_mcp

C11_ReplaceInPlaceOrAppend ==
    UpdateCalled =>
        /\ \A i \in EntriesOf(CachedBefore, Upserted.id) :
            ~YoungerThan72h(CachedBefore[i]) =>
                /\ Len(CachedAfter) = Len(CachedBefore)
                /\ IsNewEntry(CachedAfter[i])
                /\ \A j \in DOMAIN CachedBefore : j # i => CachedAfter[j] = CachedBefore[j]
        /\ EntriesOf(CachedBefore, Upserted.id) = {} =>
            /\ Len(CachedAfter) = Len(CachedBefore) + 1
            /\ IsNewEntry(CachedAfter[Len(CachedAfter)])
            /\ \A j \in DOMAIN CachedBefore : CachedAfter[j] = CachedBefore[j]

\* the first of two entries was stale and was replaced where it stood
C11_Witness ==
    /\ UpdateCalled /\ Len(CachedBefore) = 2
    /\ 1 \in EntriesOf(CachedBefore, Upserted.id)
    /\ ~YoungerThan72h(CachedBefore[1])
    /\ IsNewEntry(CachedAfter[1]) /\ CachedAfter[1] # CachedBefore[1]
    /\ CachedAfter[2] = CachedBefore[2]

(***************************************************************************)
(* C12. Cached trust is re-validated against the current qualifiers: every *)
(* lookup that returns an endpoint from the cache returns it only if the   *)
(* entry's data_item passes the qualifiers of the loaded policy; an entry  *)
(* stored with met_protocol_criteria = true whose data_item no longer      *)
(* passes is never returned.                                               *)
(***************************************************************************)
FromFallback ==
    Resolved /\ \E i \in DOMAIN ret.outcome.phases : ret.outcome.phases[i] = "fallback"
FromFlagLookup == ret.op = "load_cached_endpoint"

ReturnedSomeUrl == ret.outcome.out = "return" /\ ~ret.outcome.none

QualifyingEndpoints == {CachedBefore[i].mcp_endpoint : i \in CachedQualifying}

\* the claim as stated, for both lookups
C12_EveryLookupRevalidates ==
    ((FromFallback \/ FromFlagLookup) /\ ReturnedSomeUrl)
        => ret.outcome.value \in QualifyingEndpoints

\* C12 as amended: the fallback phase of get_verifiable_mcp_endpoint() returns
\* an endpoint only of an entry whose data_item passes the current qualifiers;
\* load_cached_endpoint() returns the endpoint of the first entry whose stored
\* met_protocol_criteria is set, whether or not its data_item still passes.
FlaggedBefore == {i \in DOMAIN CachedBefore : CachedBefore[i].met_protocol_criteria}

C12_FallbackRevalidates ==
    /\ (FromFallback /\ ReturnedSomeUrl) => ret.outcome.value \in QualifyingEndpoints
    /\ FromFlagLookup =>
        /\ ret.outcome.out = "return"
        /\ ret.outcome.none <=> FlaggedBefore = {}
        /\ FlaggedBefore # {} => ret.outcome.value = CachedBefore[Lowest(FlaggedBefore)].mcp_endpoint

\* the fallback found only an entry that is flagged but passes no more, and
\* returned None
C12_Witness ==
    /\ FromFallback /\ ret.outcome.out = "return" /\ ret.outcome.none
    /\ FlaggedBefore # {} /\ CachedQualifying = {}

(***************************************************************************)
(* C13. Entries are never deleted by a sequential resolver: in every step  *)
(* each data_item.id of the cache stays in the cache, at the same place    *)
(* among the entries; entries are only replaced in place or appended.      *)
(***************************************************************************)
IdAt(file, i) == file.cached_mcp[i].data_item.id

C13_NeverDeleted ==
    [][/\ Len(cache_file'.cached_mcp) >= Len(cache_file.cached_mcp)
       /\ \A i \in DOMAIN cache_file.cached_mcp : IdAt(cache_file', i) = IdAt(cache_file, i)]_vars

\* a call replaced the entry of one id and left the later entry of another id
C13_Witness ==
    /\ UpdateCalled /\ ret.outcome.wrote
    /\ Len(CachedBefore) = 2 /\ Len(CachedAfter) = 2
    /\ IdAt(ret.before, 1) = Upserted.id /\ IdAt(cache_file, 1) = Upserted.id
    /\ IdAt(cache_file, 2) = IdAt(ret.before, 2) /\ IdAt(cache_file, 2) # Upserted.id

(***************************************************************************)
(* C14. Cache writes are all-or-nothing: save_cache() persists the cache   *)
(* as one atomic write, so at every instant the file holds the complete    *)
(* previous cache or the complete new cache, and a reader or a crash       *)
(* during a save never meets an empty or partly written file.              *)
(***************************************************************************)
C14_AtomicSave ==
    /\ saving.stage # "idle" => cache_file \in {saving.previous, saving.pending}
    /\ (saving.stage # "idle" /\ FromFlagLookup)
            => ret.before \in {saving.previous, saving.pending}

(***************************************************************************)
(* C15. One resolution issues exactly one HTTP GET: from the construction  *)
(* of PolicyManager to the return of get_verifiable_mcp_endpoint() the     *)
(* registry is contacted once, and the body matched is that request's.     *)
(***************************************************************************)
C15_OneGet ==
    Resolved =>
        /\ http_gets = 1
        /\ registry_response_data = discover_registry_data(registry_answer)

(***************************************************************************)
(* C16. The orchestrator keeps no discovery results: every call of         *)
(* get_verifiable_mcp_endpoint() runs its live phase on the registry's     *)
(* answer of that call, so after the answer changed the next call decides  *)
(* on the new answer.                                                      *)
(***************************************************************************)
\* the items the registry lists now
ListedNow ==
    IF registry_answer.ok /\ registry_answer.body.is_json
       /\ registry_answer.body.doc.shape = "object" /\ registry_answer.body.doc.data = "list"
    THEN registry_answer.body.doc.items
    ELSE <<>>

QualifyingNow == {i \in DOMAIN ListedNow : Qualifies(ListedNow[i])}

C16_DecidesOnCurrentAnswer ==
    Resolved =>
        /\ QualifyingNow # {} => ReturnedUrl(ListedNow[Lowest(QualifyingNow)].url)
        /\ QualifyingNow = {} => FromFallback

(***************************************************************************)
(* C17. Resolution terminates: with a well-formed policy and a registry    *)
(* call that returned or failed, every run of                              *)
(* get_verifiable_mcp_endpoint() eventually returns a live URL, a cached   *)
(* URL or None, and goes through its phases in the order live,             *)
(* cache-fallback, exhausted, entering no phase twice.                     *)
(***************************************************************************)
PhaseSuccessors ==
    {<<"idle", "live">>, <<"returned", "live">>,
     <<"live", "fallback">>, <<"live", "returned">>,
     <<"fallback", "exhausted">>, <<"fallback", "returned">>,
     <<"exhausted", "returned">>}

LiveUrls == {LiveItems[i].url : i \in DOMAIN LiveItems}
CachedEndpoints == {CachedBefore[i].mcp_endpoint : i \in DOMAIN CachedBefore}

ReturnedByPhase ==
    /\ run.pc = "returned" /\ ret.outcome.out = "return"
    /\ \/ run.phases = <<"live">> /\ ~ret.outcome.none /\ ret.outcome.value \in LiveUrls
       \/ /\ run.phases = <<"live", "fallback">>
          /\ ~ret.outcome.none /\ ret.outcome.value \in CachedEndpoints
       \/ run.phases = <<"live", "fallback", "exhausted">> /\ ret.outcome.none

C17_TerminatesInOrder ==
    /\ (run.pc = "live") ~> (run.pc = "returned")
    /\ [][run.pc' # run.pc => <<run.pc, run.pc'>> \in PhaseSuccessors]_vars
    /\ [](Resolved => ReturnedByPhase)

\* a run that looked at a registry item and at a cache entry, and returned None
C17_Witness ==
    /\ run.pc = "returned" /\ Resolved /\ ret.outcome.none
    /\ run.phases = <<"live", "fallback", "exhausted">>
    /\ LiveItems # <<>> /\ CachedBefore # <<>>

(***************************************************************************)
(* C18. A missing required qualifier is a fatal configuration error: when  *)
(* qualifiers_metrics lacks verified, provider, relevance_score or uptime, *)
(* resolution fails with an error and returns neither an endpoint nor      *)
(* None, whatever the registry answered and the cache holds; qualifiers of *)
(* other names never change the result.                                    *)
(***************************************************************************)
QualifierNames == {policy_metrics[i].name : i \in DOMAIN policy_metrics}

KnownQualifiersOnly ==
    [policies EXCEPT !.qualifiers_metrics =
        SelectSeq(policy_metrics, LAMBDA q : q.name \in RequiredQualifiers)]

C18_MissingQualifierIsFatal ==
    Resolved =>
        /\ ~(RequiredQualifiers \subseteq QualifierNames) => ret.outcome.out = "raise"
        /\ ret.outcome
            = get_verifiable_mcp_endpoint(KnownQualifiersOnly, registry_response_data, ret.before, now)

(***************************************************************************)
(* C20. The discovery URL has exactly one "?": for every                   *)
(* registry_discovery_end_point, also one that holds a "?" at its end or   *)
(* before query text of its own, the URL requested holds exactly one "?",  *)
(* followed by limit=3&q=recipe&tags=nutrition&type=tool&verified=true.    *)
(***************************************************************************)
ExpectedQuery ==
    <<"limit", "=", "3", "&", "q", "=", "recipe", "&", "tags", "=", "nutrition", "&",
      "type", "=", "tool", "&", "verified", "=", "true">>

QuestionMarks(url) == Cardinality({i \in DOMAIN url : url[i] = "?"})

C20_OneQuestionMark ==
    policies.loaded =>
        /\ QuestionMarks(requested_url) = 1
        /\ \E k \in DOMAIN requested_url :
            /\ requested_url[k] = "?"
            /\ SubSeq(requested_url, k + 1, Len(requested_url)) = ExpectedQuery

(***************************************************************************)
(* C19. Only http(s) endpoints are connected to: connect_to_sse_server()   *)
(* attempts the SSE connection only if resolution returned a non-empty     *)
(* endpoint whose derived URL starts with http:// or https://; when        *)
(* resolution returned None or the scheme is another one, no connection is *)
(* attempted, self.session stays None, and process_query() answers without *)
(* any tool call.                                                          *)
(***************************************************************************)
\* the endpoint without its trailing slashes, then /sse
DerivedUrl(endpoint) ==
    LET cut == CHOOSE n \in 0..Len(endpoint) :
                   /\ \A i \in (n + 1)..Len(endpoint) : endpoint[i] = "/"
                   /\ n > 0 => endpoint[n] # "/"
    IN  SubSeq(endpoint, 1, cut) \o <<"/", "s", "s", "e">>

\* scheme names are matched whatever the case of their letters
SameLetter(a, b) ==
    a = b \/ <<a, b>> \in {<<"H", "h">>, <<"T", "t">>, <<"P", "p">>, <<"S", "s">>}

HasScheme(url, prefix) ==
    Len(url) >= Len(prefix) /\ \A i \in DOMAIN prefix : SameLetter(url[i], prefix[i])

Connectable ==
    /\ client.endpoint.kind = "str"
    /\ client.endpoint.s # <<>>
    /\ \/ HasScheme(DerivedUrl(client.endpoint.s), http_prefix)
       \/ HasScheme(DerivedUrl(client.endpoint.s), https_prefix)

C19_OnlyHttpConnects ==
    client.pc \in {"chat", "failed", "closed"} =>
        /\ client.connects > 0 => Connectable
        /\ ~Connectable =>
            /\ client.connects = 0
            /\ ~client.session
            /\ client.tool_calls = 0
            /\ client.reply \in {"none", "llm_only", "error"}

\* an ftp endpoint: no connection, and a query answered by the LLM alone
C19_Witness ==
    /\ client.pc = "chat"
    /\ client.endpoint.kind = "str"
    /\ HasScheme(client.endpoint.s, <<"f", "t", "p", ":", "/", "/">>)
    /\ client.connects = 0 /\ ~client.session
    /\ client.queries > 0 /\ client.reply = "llm_only"

(***************************************************************************)
(* C21. Concurrent resolvers race on the cache write: with two resolvers   *)
(* interleaving the load_cache() and save_cache() steps of update_cache(), *)
(* the file still holds at most one entry per id, but an entry saved by    *)
(* one resolver can be overwritten and lost by the other; ids are kept     *)
(* only by a save that nothing else wrote before since its load.           *)
(***************************************************************************)
FileEntries == cache_file.cached_mcp

OneEntryPerIdInFile ==
    \A i, j \in DOMAIN FileEntries :
        FileEntries[i].data_item.id = FileEntries[j].data_item.id => i = j

\* resolver r saves in this step, and the file is as r loaded it
SavesUndisturbed(r) ==
    /\ resolvers[r].pc = "loaded" /\ resolvers'[r].pc = "idle"
    /\ resolvers[r].cache.cached_mcp = cache_file.cached_mcp

KeepsIds ==
    /\ Len(cache_file'.cached_mcp) >= Len(cache_file.cached_mcp)
    /\ \A i \in DOMAIN cache_file.cached_mcp : IdAt(cache_file', i) = IdAt(cache_file, i)

C21_RaceKeepsOnePerId ==
    /\ []OneEntryPerIdInFile
    /\ [][\A r \in Resolvers : SavesUndisturbed(r) => KeepsIds]_vars

\* a save of one resolver removed an entry the other had saved since its load
C21_Witness ==
    /\ ret.op = "update_cache" /\ ret.outcome.wrote
    /\ \E r \in Resolvers : resolvers[r].pc = "idle"
    /\ \E i \in DOMAIN ret.before.cached_mcp :
        /\ IdAt(ret.before, i) # ret.arg.id
        /\ \A j \in DOMAIN FileEntries : IdAt(cache_file, j) # IdAt(ret.before, i)
    /\ OneEntryPerIdInFile

(***************************************************************************)
(* C22. The cache-enable flag only gates writes: when                      *)
(* cache_mcp_servers_policy is false no call of                            *)
(* get_verifiable_mcp_endpoint() creates or modifies the cache file, and   *)
(* on a live match update_cache() is not called, so the file is neither    *)
(* read nor written; the fallback phase still reads the cache and returns  *)
(* the endpoint of its first passing entry.                                *)
(***************************************************************************)
CacheDisabled == ~policies.cache_mcp_servers_policy

C22_FlagOnlyGatesWrites ==
    (Resolved /\ CacheDisabled) =>
        /\ cache_file = ret.before
        /\ ~ret.outcome.wrote
        /\ ~UpdateCalled
        /\ LiveQualifying # {} => ~FromFallback
        /\ (LiveQualifying = {} /\ CachedQualifying # {}) =>
            /\ FromFallback
            /\ ReturnedUrl(CachedBefore[Lowest(CachedQualifying)].mcp_endpoint)

\* with the flag off, the fallback returned an endpoint from a cache written earlier
C22_Witness ==
    /\ Resolved /\ CacheDisabled /\ FromFallback
    /\ CachedBefore # <<>> /\ ReturnedSomeUrl
    /\ ret.outcome.value \in CachedEndpoints
    /\ cache_file = ret.before

(***************************************************************************)
(* C23. Each transport context is exited at most once: over every run of   *)
(* main(), the stream context and the session context are each exited     *)
(* only if they were entered, and at most one time, counting the failure   *)
(* handler of connect_to_sse_server() and the final cleanup().             *)
(***************************************************************************)
C23_ExitedAtMostOnce ==
    /\ client.streams_exits <= 1
    /\ client.session_exits <= 1
    /\ client.streams_exits > 0 => client.streams_entered
    /\ client.session_exits > 0 => client.session_entered

====
